---- MODULE Spec2Model ----
(***************************************************************************)
(* Verification model of the client-side performance-metrics aggregator of *)
(* portfolio-25: the usePerformanceMonitor hook (Metric Store, persistence *)
(* effects, query and aggregation functions).                              *)
(*                                                                         *)
(* React scheduling as used by the hook:                                   *)
(*   - setMetrics / setIsLoading enqueue a state update (`updates`); the   *)
(*     next render applies the whole queue in call order (Render);         *)
(*   - useEffect callbacks are passive effects: they run after the commit  *)
(*     of the render that scheduled them and always before the next        *)
(*     render, with the state of their own render in their closure         *)
(*     (MountEffects, SaveEffect);                                         *)
(*   - getMetrics / getAverages / getPerformanceScore read the committed   *)
(*     `metrics` of the current render and the clock `now`.                *)
(***************************************************************************)
EXTENDS Integers, Sequences, FiniteSets, TLC

\* ------------------------------------------------------------------ bounds
MaxCapacity == 2
MaxRecords == 3
MaxPending == 3
MaxTime == 2
MaxSamples == 11
MaxRatings == 6
MaxVitals == 3
MaxDays == 1

\* ------------------------------------------------------- program constants
DEFAULT_maxStoredMetrics == 1000
DayMs == 24 * 60 * 60 * 1000
RecentWindow == 5
TrendMinSamples == 10

\* ------------------------------------------------------------- JS values
\* `undefined` for an optional string / an optional number argument
NoName == "<undefined>"
NoNumber == -1
\* localStorage.getItem(key): null, or the JSON text of an array
NoItem == [kind |-> "null", items |-> <<>>]
StoredArray(list) == [kind |-> "array", items |-> list]

\* an element of a parsed value that is not a metric (null, a number, one
\* character of a string)
NotAMetric == [name |-> "<not a metric>", value |-> 0, rating |-> "<none>", timestamp |-> 0]

\* other texts an earlier writer can have left under the key:
\*   "unparseable"  JSON.parse throws
\*   "object", "number"  parse to a value without a slice method
\*   "string"  parses to a string, items are its characters
\*   "junkArray"  parses to an array whose elements are not metrics
MalformedKinds == {"unparseable", "object", "number", "string", "junkArray"}
StoredOther(kind, k) ==
  [kind |-> kind,
   items |-> IF kind \in {"string", "junkArray"} THEN [i \in 1..k |-> NotAMetric] ELSE <<>>]

\* JS truthiness of an optional string: undefined and "" are falsy
TruthyName(n) == n # NoName /\ n # ""
\* JS truthiness of an optional number: undefined and 0 are falsy
TruthyNumber(x) == x # NoNumber /\ x # 0

Max2(a, b) == IF a >= b THEN a ELSE b
Min2(a, b) == IF a <= b THEN a ELSE b
Abs(x) == IF x < 0 THEN 0 - x ELSE x

\* Array.prototype.slice(start): a negative start counts from the end,
\* start = 0 (which -0 is) keeps the whole array
JsSliceFromHead(s, start) ==
  SubSeq(s, 1, Min2(Len(s), Abs(start)))
JsSliceFrom(s, start) ==
  LET from == IF start < 0 THEN Max2(Len(s) + start, 0) ELSE Min2(start, Len(s))
  IN SubSeq(s, from + 1, Len(s))

\* Array.prototype.slice(0, end) for 0 <= end
JsSliceTo(s, end) == SubSeq(s, 1, Min2(end, Len(s)))

RECURSIVE SumValues(_)
SumValues(s) == IF s = <<>> THEN 0 ELSE Head(s).value + SumValues(Tail(s))

RECURSIVE MaxTimestamp(_)
MaxTimestamp(s) ==
  IF Len(s) = 1 THEN Head(s).timestamp
  ELSE Max2(Head(s).timestamp, MaxTimestamp(Tail(s)))

\* ------------------------------------------- JavaScript values and JSON
\* a JavaScript value: its type tag t with the number v, the string s or the
\* own properties o (a sequence of entries) of an object
Scalar(t, v, s) == [t |-> t, v |-> v, s |-> s, o |-> <<>>]
JsUndefined == Scalar("undefined", 0, "")
JsNull == Scalar("null", 0, "")
JsNaN == Scalar("NaN", 0, "")
JsInfinity == Scalar("Infinity", 0, "")
JsNumber(k) == Scalar("number", k, "")
JsString(x) == Scalar("string", 0, x)
JsObject(entries) == [t |-> "object", v |-> 0, s |-> "", o |-> entries]
Entry(k, val) == [k |-> k, val |-> val]

\* obj[key]: undefined when the object has no such property
JsGet(obj, key) ==
  LET hit(en) == en.k = key
      hits == SelectSeq(obj.o, hit)
  IN IF hits = <<>> THEN JsUndefined ELSE hits[Len(hits)].val

JsKeys(obj) == {obj.o[i].k : i \in 1..Len(obj.o)}

\* the truthiness that || tests
Truthy(x) ==
  CASE x.t = "number" -> x.v # 0
    [] x.t = "string" -> x.s # ""
    [] x.t \in {"Infinity", "object"} -> TRUE
    [] OTHER -> FALSE

\* a JSON text, as the tree it denotes: jnumber, jstring, jnull, or jobject
\* with its members
Json(j, v, s, members) == [j |-> j, v |-> v, s |-> s, members |-> members]
Member(k, json) == [k |-> k, json |-> json]

\* JSON.stringify of a value that is not an object: NaN, Infinity and null
\* are all written as null
JsonScalar(x) ==
  CASE x.t = "number" -> Json("jnumber", x.v, "", <<>>)
    [] x.t = "string" -> Json("jstring", 0, x.s, <<>>)
    [] OTHER -> Json("jnull", 0, "", <<>>)

\* JSON.stringify(x): a property whose value is undefined is left out
RECURSIVE JsonStringify(_)
RECURSIVE JsonMembers(_)
JsonMembers(entries) ==
  IF entries = <<>> THEN <<>>
  ELSE IF Head(entries).val.t = "undefined" THEN JsonMembers(Tail(entries))
  ELSE <<Member(Head(entries).k, JsonStringify(Head(entries).val))>>
         \o JsonMembers(Tail(entries))
JsonStringify(x) ==
  IF x.t = "object" THEN Json("jobject", 0, "", JsonMembers(x.o)) ELSE JsonScalar(x)

\* JSON.stringify(metrics) of an array of objects
JsonStringifyArray(list) == [i \in 1..Len(list) |-> JsonStringify(list[i])]

\* the variant of JsonParseScalar that reads null as undefined
JsonParseScalarNullAsUndefined(json) ==
  CASE json.j = "jnumber" -> JsNumber(json.v)
    [] json.j = "jstring" -> JsString(json.s)
    [] OTHER -> JsUndefined

\* JSON.parse of a number, a string or null
JsonParseScalar(json) ==
  CASE json.j = "jnumber" -> JsNumber(json.v)
    [] json.j = "jstring" -> JsString(json.s)
    [] OTHER -> JsNull

\* JSON.parse(text)
RECURSIVE JsonParse(_)
RECURSIVE JsonParseMembers(_)
JsonParseMembers(members) ==
  IF members = <<>> THEN <<>>
  ELSE <<Entry(Head(members).k, JsonParse(Head(members).json))>>
         \o JsonParseMembers(Tail(members))
JsonParse(json) ==
  IF json.j = "jobject" THEN JsObject(JsonParseMembers(json.members))
  ELSE JsonParseScalar(json)

JsonParseArray(text) == [i \in 1..Len(text) |-> JsonParse(text[i])]

VARIABLES
  maxStoredMetrics,   \* finalConfig.maxStoredMetrics
  enableLocalStorage, \* finalConfig.enableLocalStorage
  arrayCheck,         \* the load effect tests Array.isArray (part_006) or not (part_007)
  storageOk,          \* localStorage operations succeed (FALSE: every one throws)
  hasWindow,          \* typeof window !== 'undefined'
  thrown,             \* history: an exception has propagated to a caller of the hook
  callerStamped,      \* history: a recordMetric call brought its own timestamp
  metrics,            \* useState: committed metrics of the current render
  isLoading,          \* useState: committed isLoading
  updates,            \* state updates enqueued and not yet rendered
  storage,            \* localStorage[storageKey]: NoItem or StoredArray(list)
  mountPending,       \* the mount (load) effect has not run yet
  savePending,        \* the save effect of the last commit has not run yet
  now,                \* Date.now()
  recorded,           \* history: metrics recorded since the Store was last replaced
  cleared,            \* history: clearMetrics was called and no recordMetric since
  lastAverages,       \* the last getAverages call: argument, result, clock (at),
                      \* clock of the call it repeats (prev)
  jsStore,            \* a Store of metric objects with JavaScript field values
  jsLast,             \* the argument of the last recordMetric call on jsStore
  jsParsed,           \* the last JSON round trip of jsStore: its input and result
  tabs,               \* two more instances of the hook on the same storage key
  canImport,          \* useWebVitals: import('web-vitals') resolves
  sampleRate,         \* useWebVitals: config.sampleRate, in percent
  endpoint,           \* useWebVitals: config.endpoint is a non-empty path
  wvMetrics,          \* useWebVitals: useState metrics, committed
  wvIsLoading,        \* useWebVitals: useState isLoading, committed
  wvIsSupported,      \* useWebVitals: useState isSupported, committed
  wvUpdates,          \* useWebVitals: state updates enqueued and not yet rendered
  wvSupport,          \* useWebVitals: the support-check effect: mount, importing, done
  wvTrackPending,     \* useWebVitals: the tracking effect of the last commit has not run
  wvTracking,         \* useWebVitals: initializeTracking: none, importing, subscribed
  wvCalls,            \* useWebVitals: the reportMetric calls so far, in call order
  wvSubscriptions,    \* useWebVitals: how many times onCLS .. onTTFB were registered
  wvEvent,            \* useWebVitals: the last browser metric event: its number, its
                      \* name, and how many registered callbacks it has invoked
  announcerHook,      \* useA11yAnnouncements: which of the two hooks is mounted
  regionText,         \* useA11yAnnouncements: textContent of the two live regions
  shownAt,            \* history: when each live region's text was last written
  timers,             \* useA11yAnnouncements: the pending setTimeout timers
  timeoutRef,         \* useA11yAnnouncements: timeoutRef.current (0: null)
  clearTimeoutRef,    \* useA11yAnnouncements: clearTimeoutRef.current (0: null)
  nextTimer,          \* the id the next setTimeout call returns
  timerClock,         \* the event loop's time in ms
  announced,          \* useA11yAnnouncements: number of announce calls so far
  theme,              \* ThemeProvider: useState theme, committed
  resolvedTheme,      \* ThemeProvider: useState resolvedTheme, committed
  mounted,            \* ThemeProvider: useState mounted, committed
  themeUpdates,       \* ThemeProvider: state updates enqueued and not yet rendered
  themeEffects,       \* ThemeProvider: the effects of the last commit not yet run
  handleChange,       \* ThemeProvider: the theme the registered media-query listener
                      \* closes over ("none": no listener)
  systemDark,         \* matchMedia('(prefers-color-scheme: dark)').matches
  rootClassList,      \* document.documentElement.classList, its theme classes
  themeItem,          \* localStorage['theme']
  savedTheme,         \* ThemeProvider: what the read effect got from localStorage
  themeEvents,        \* number of setTheme calls and colour-scheme changes so far
  triggerOnce,        \* useIntersectionObserver: the triggerOnce option
  isIntersecting,     \* useIntersectionObserver: useState isIntersecting, committed
  hasTriggered,       \* useIntersectionObserver: useState hasTriggered, committed
  observerUpdates,    \* useIntersectionObserver: state updates not yet rendered
  observerEffect,     \* useIntersectionObserver: the effect of the last commit has
                      \* not run yet
  observer,           \* useIntersectionObserver: the connected observer: whether it
                      \* observes, and the hasTriggered its callback closes over
  lastEntry,          \* the intersection value of the last observer callback
  entries             \* number of observer callbacks so far

vars == <<maxStoredMetrics, enableLocalStorage, arrayCheck, storageOk, thrown,
          metrics, isLoading, updates,
          storage, mountPending, savePending, now, recorded, cleared,
          lastAverages, hasWindow, jsStore, jsLast, jsParsed, callerStamped,
          tabs, canImport, sampleRate, endpoint, wvMetrics, wvIsLoading, wvIsSupported,
          wvUpdates, wvSupport, wvTrackPending, wvTracking, wvCalls,
          wvSubscriptions, wvEvent,
          announcerHook, regionText, shownAt, timers, timeoutRef, clearTimeoutRef,
          nextTimer, timerClock, announced,
          theme, resolvedTheme, mounted, themeUpdates, themeEffects, handleChange,
          systemDark, rootClassList, themeItem, savedTheme, themeEvents,
          triggerOnce, isIntersecting, hasTriggered, observerUpdates, observerEffect,
          observer, lastEntry, entries>>

\* what never changes during a session
config == <<maxStoredMetrics, enableLocalStorage, arrayCheck, storageOk, hasWindow,
            canImport, sampleRate, endpoint>>

\* the state of useWebVitals
webVitals == <<wvMetrics, wvIsLoading, wvIsSupported, wvUpdates, wvSupport,
               wvTrackPending, wvTracking, wvCalls, wvSubscriptions, wvEvent>>

\* the state of useA11yAnnouncements
announcer == <<announcerHook, regionText, shownAt, timers, timeoutRef, clearTimeoutRef,
               nextTimer, timerClock, announced>>

\* the state of ThemeProvider and of what it reads and writes
themeVars == <<theme, resolvedTheme, mounted, themeUpdates, themeEffects, handleChange,
               systemDark, rootClassList, themeItem, savedTheme, themeEvents>>

\* the state of useIntersectionObserver
observerVars == <<triggerOnce, isIntersecting, hasTriggered, observerUpdates,
                  observerEffect, observer, lastEntry, entries>>

\* the state of the hooks and components of the user interface
widgets == <<announcer, themeVars, observerVars>>

\* the other hook instances
hooks == <<tabs, webVitals, widgets>>

\* the Store of metric objects
jsVars == <<jsStore, jsLast, jsParsed>>

\* the state outside the Store of the configurable hook
others == <<jsVars, hooks>>

\* the state of the configurable hook, its storage apart
monitor == <<metrics, isLoading, updates, mountPending, savePending, now, recorded,
             cleared, lastAverages, thrown, callerStamped>>

Metric(n, v, r, t) == [name |-> n, value |-> v, rating |-> r, timestamp |-> t]

\* ------------------------------------------------------------ state updates
UpdAppend(m) == [op |-> "append", m |-> m, list |-> <<>>]
UpdSet(list) == [op |-> "set", m |-> NoItem, list |-> list]
\* the variant of UpdLoaded that leaves isLoading true
UpdStillLoading == [op |-> "loading", m |-> NoItem, list |-> <<>>]

UpdLoaded == [op |-> "loaded", m |-> NoItem, list |-> <<>>]

\* the updater of recordMetric: [...prev, newMetric].slice(-maxStoredMetrics)
AppendBounded(prev, m, cap) == JsSliceFrom(Append(prev, m), 0 - cap)

\* the metrics state after the queued updates ran in order
RECURSIVE ApplyMetrics(_, _, _)
ApplyMetrics(cur, q, cap) ==
  IF q = <<>> THEN cur
  ELSE LET u == Head(q)
           nxt == CASE u.op = "append" -> AppendBounded(cur, u.m, cap)
                    [] u.op = "set" -> u.list
                    [] OTHER -> cur
       IN ApplyMetrics(nxt, Tail(q), cap)

HasOp(q, op) == \E i \in 1..Len(q) : q[i].op = op

\* ---------------------------------------------------------------- queries
\* getMetrics(metricName?, timeRange?)
NameFilter(list, metricName) ==
  IF TruthyName(metricName)
  THEN LET same(m) == m.name = metricName IN SelectSeq(list, same)
  ELSE list

TimeFilterInclusive(list, timeRange, clock) ==
  IF TruthyNumber(timeRange)
  THEN LET recent(m) == m.timestamp >= clock - timeRange IN SelectSeq(list, recent)
  ELSE list
TimeFilterDefaultWindow(list, timeRange, clock) ==
  LET recent(m) == m.timestamp > clock - (IF TruthyNumber(timeRange) THEN timeRange ELSE 1)
  IN SelectSeq(list, recent)
TimeFilter(list, timeRange, clock) ==
  IF TruthyNumber(timeRange)
  THEN LET recent(m) == m.timestamp > clock - timeRange IN SelectSeq(list, recent)
  ELSE list

getMetrics(metricName, timeRange) ==
  TimeFilter(NameFilter(metrics, metricName), timeRange, now)

\* ------------------------------------------------------------- aggregation
RatingsOf(list) == [i \in 1..Len(list) |-> list[i].rating]

GoodCount(ratings) == Cardinality({i \in 1..Len(ratings) : ratings[i] = "good"})

\* rating of a group: majority of the ratings of metricList.slice(-5)
RatingOfTieGood(ratings) ==
  LET goodCount == GoodCount(ratings)
  IN IF 2 * goodCount >= Len(ratings) THEN "good"
     ELSE IF goodCount > 0 THEN "needs-improvement" ELSE "poor"
RatingOfNoMiddle(ratings) ==
  LET goodCount == GoodCount(ratings)
  IN IF 2 * goodCount > Len(ratings) THEN "good" ELSE "poor"
RatingOf(ratings) ==
  LET goodCount == GoodCount(ratings)
  IN IF 2 * goodCount > Len(ratings) THEN "good"
     ELSE IF goodCount > 0 THEN "needs-improvement" ELSE "poor"

RecentRating(metricList) ==
  RatingOf(RatingsOf(JsSliceFrom(metricList, 0 - RecentWindow)))

LowerIsBetter == {"LCP", "CLS", "FID", "TTFB"}

\* change = (secondAvg - firstAvg) / firstAvg as the exact fraction
\* num / den with den > 0; a zero firstAvg gives NaN (0/0) or +Infinity.
\* Half sums s1, s2 over n1, n2 samples (values are non-negative).
ChangeZeroGuarded(s1, n1, s2, n2) ==
  IF s1 > 0 THEN [kind |-> "finite", num |-> s2 * n1 - s1 * n2, den |-> s1 * n2]
  ELSE [kind |-> "NaN", num |-> 0, den |-> 1]
Change(s1, n1, s2, n2) ==
  IF s1 > 0 THEN [kind |-> "finite", num |-> s2 * n1 - s1 * n2, den |-> s1 * n2]
  ELSE IF s2 = 0 THEN [kind |-> "NaN", num |-> 0, den |-> 1]
  ELSE [kind |-> "Infinity", num |-> 1, den |-> 1]

\* Math.abs(change) > 0.1
ExceedsThresholdInclusive(change) ==
  CASE change.kind = "NaN" -> FALSE
    [] change.kind = "Infinity" -> TRUE
    [] OTHER -> 10 * Abs(change.num) >= change.den
ExceedsThreshold(change) ==
  CASE change.kind = "NaN" -> FALSE
    [] change.kind = "Infinity" -> TRUE
    [] OTHER -> 10 * Abs(change.num) > change.den

Direction(name, change) ==
  IF name \in LowerIsBetter
  THEN (IF change.num < 0 THEN "improving" ELSE "declining")
  ELSE (IF change.num > 0 THEN "improving" ELSE "declining")

TrendOf(name, metricList) ==
  IF Len(metricList) >= TrendMinSamples
  THEN LET midPoint == Len(metricList) \div 2
           firstHalf == JsSliceTo(metricList, midPoint)
           secondHalf == JsSliceFrom(metricList, midPoint)
           change == Change(SumValues(firstHalf), Len(firstHalf),
                            SumValues(secondHalf), Len(secondHalf))
       IN IF ExceedsThreshold(change) THEN Direction(name, change) ELSE "stable"
  ELSE "stable"

NamesOf(list) == {list[i].name : i \in 1..Len(list)}

GroupOf(list, n) == LET same(m) == m.name = n IN SelectSeq(list, same)

\* one entry of MetricAverages; average is kept as the exact fraction sum/count
AverageEntry(name, metricList) ==
  [average |-> [sum |-> SumValues(metricList), count |-> Len(metricList)],
   count |-> Len(metricList),
   rating |-> RecentRating(metricList),
   trend |-> TrendOf(name, metricList),
   lastUpdated |-> MaxTimestamp(metricList)]

AveragesOf(relevantMetrics) ==
  [n \in NamesOf(relevantMetrics) |-> AverageEntry(n, GroupOf(relevantMetrics, n))]

getAverages(timeRange) == AveragesOf(getMetrics(NoName, timeRange))

\* ---------------------------------------------------------------- score
CoreVitals == <<"LCP", "FID", "CLS">>

MetricScore(rating) ==
  CASE rating = "good" -> 100
    [] rating = "needs-improvement" -> 75
    [] rating = "poor" -> 25
    [] OTHER -> 0

\* Math.round(score / count) for score >= 0, count > 0
RoundDivFloor(score, count) == score \div count
RoundDiv(score, count) == (2 * score + count) \div (2 * count)

Latest(list) == list[Len(list)]

VitalsPresent(list) == {i \in 1..Len(CoreVitals) : GroupOf(list, CoreVitals[i]) # <<>>}

RECURSIVE SumScores(_, _)
SumScores(list, idx) ==
  IF idx = {} THEN 0
  ELSE LET i == CHOOSE j \in idx : TRUE
       IN MetricScore(Latest(GroupOf(list, CoreVitals[i])).rating)
          + SumScores(list, idx \ {i})

NoScore == -1

ScoreOf(recentMetrics) ==
  LET present == VitalsPresent(recentMetrics)
      count == Cardinality(present)
  IN IF count > 0 THEN RoundDiv(SumScores(recentMetrics, present), count)
     ELSE NoScore

\* usePerformanceMonitor.getPerformanceScore: the last 24 hours only
getPerformanceScore == ScoreOf(getMetrics(NoName, DayMs))

\* useWebVitals.getPerformanceScore over its own metrics list: no time window
WebVitalsScore(list) == ScoreOf(list)

\* ---------------------------------------------------------------- actions
NoCall == [timeRange |-> NoNumber, result |-> <<>>, at |-> 0, prev |-> NoNumber,
           n |-> 0, clean |-> FALSE]

\* any change of the Store invalidates the comparison with the last call
Dirty(call) == [call EXCEPT !.clean = FALSE]

\* localStorage contents left by an earlier session: element i has value i
Persisted(k) == [i \in 1..k |-> Metric("FID", i, "good", 1)]

\* the variant of NewMetric that stamps the epoch instead of the clock
NewMetricEpoch(n, v, r, t) == Metric(n, v, r, IF TruthyNumber(t) THEN t ELSE 0)

\* recordMetric(metric): timestamp: metric.timestamp || Date.now()
NewMetric(n, v, r, t) == Metric(n, v, r, IF TruthyNumber(t) THEN t ELSE now)

RecordMetric(n, v, r, t) ==
  /\ updates' = Append(updates, UpdAppend(NewMetric(n, v, r, t)))
  /\ recorded' = Append(recorded, NewMetric(n, v, r, t))
  /\ callerStamped' = (callerStamped \/ TruthyNumber(t))
  /\ cleared' = FALSE
  /\ lastAverages' = Dirty(lastAverages)
  /\ UNCHANGED <<config, others, thrown, metrics, isLoading, storage, mountPending, savePending, now>>

\* the load effect reaches setMetrics(parsedMetrics.slice(-max)): getItem and
\* JSON.parse did not throw, the text is not null, and the parsed value is an
\* array or, without the Array.isArray test, a string (which has a slice
\* method; the TypeError of any other value is caught)
Sliceable(stored) ==
  /\ storageOk
  /\ \/ stored.kind \in {"array", "junkArray"}
     \/ (stored.kind = "string" /\ ~arrayCheck)

\* the effects of the first commit: the load effect, then the save effect,
\* which does nothing because its closure has isLoading = true
MountEffects ==
  /\ mountPending
  /\ mountPending' = FALSE
  /\ LET rehydrate == enableLocalStorage /\ Sliceable(storage)
     IN /\ updates' = IF rehydrate
                      THEN updates \o <<UpdSet(JsSliceFrom(storage.items, 0 - maxStoredMetrics)),
                                        UpdLoaded>>
                      ELSE Append(updates, UpdLoaded)
        /\ recorded' = IF rehydrate THEN <<>> ELSE recorded
  /\ lastAverages' = Dirty(lastAverages)
  /\ UNCHANGED <<config, callerStamped, others, thrown, metrics, isLoading, storage, savePending, now, cleared>>

\* a render applies every queued update in order and schedules the save
\* effect (metrics or isLoading changed); pending effects run first
Render ==
  /\ updates # <<>>
  /\ ~mountPending
  /\ ~savePending
  /\ metrics' = ApplyMetrics(metrics, updates, maxStoredMetrics)
  /\ isLoading' = (isLoading /\ ~HasOp(updates, "loaded"))
  /\ updates' = <<>>
  /\ savePending' = TRUE
  /\ lastAverages' = Dirty(lastAverages)
  /\ UNCHANGED <<config, callerStamped, others, thrown, storage, mountPending, now, recorded, cleared>>

\* the save effect, with the metrics and isLoading of the render it belongs to
SaveEffect ==
  /\ savePending
  /\ savePending' = FALSE
  /\ storage' = IF ~isLoading /\ Len(metrics) > 0 /\ enableLocalStorage /\ storageOk
                THEN StoredArray(metrics) ELSE storage
  /\ UNCHANGED <<config, callerStamped, others, thrown, metrics, isLoading, updates, mountPending, now,
                 recorded, cleared, lastAverages>>

\* setMetrics([]) runs first; removeItem is not inside a try block
ClearMetrics ==
  /\ updates' = Append(updates, UpdSet(<<>>))
  /\ storage' = IF enableLocalStorage /\ storageOk THEN NoItem ELSE storage
  /\ thrown' = (thrown \/ (enableLocalStorage /\ ~storageOk))
  /\ recorded' = <<>>
  /\ cleared' = TRUE
  /\ lastAverages' = Dirty(lastAverages)
  /\ UNCHANGED <<config, callerStamped, others, metrics, isLoading, mountPending, savePending, now>>

\* time passes
Tick(d) ==
  /\ now' = now + d
  /\ UNCHANGED <<config, callerStamped, others, thrown, metrics, isLoading, updates, storage, mountPending,
                 savePending, recorded, cleared, lastAverages>>

\* a caller invokes getAverages(timeRange) and keeps the result
GetAveragesCall(timeRange) ==
  /\ lastAverages' = [timeRange |-> timeRange, result |-> getAverages(timeRange),
                      at |-> now,
                      prev |-> IF lastAverages.clean /\ lastAverages.timeRange = timeRange
                               THEN lastAverages.at ELSE NoNumber,
                      n |-> 1 - lastAverages.n, clean |-> TRUE]
  /\ UNCHANGED <<config, callerStamped, others, thrown, metrics, isLoading, updates, storage, mountPending,
                 savePending, now, recorded, cleared>>

\* ------------------------------- recordMetric and JSON on metric objects
\* window.location.pathname
Pathname == "/projects"

MetricFields == {"name", "value", "rating", "timestamp", "url", "metadata"}

\* newMetric = {...metric, timestamp: metric.timestamp || Date.now(),
\*              url: metric.url || (window ? pathname : undefined)}
JsNewMetric(metric) ==
  JsObject(<<Entry("name", JsGet(metric, "name")),
             Entry("value", JsGet(metric, "value")),
             Entry("rating", JsGet(metric, "rating")),
             Entry("metadata", JsGet(metric, "metadata")),
             Entry("timestamp", IF Truthy(JsGet(metric, "timestamp"))
                                THEN JsGet(metric, "timestamp") ELSE JsNumber(now)),
             Entry("url", IF Truthy(JsGet(metric, "url")) THEN JsGet(metric, "url")
                          ELSE IF hasWindow THEN JsString(Pathname) ELSE JsUndefined)>>)

NoRoundTrip == [done |-> FALSE, of |-> <<>>, list |-> <<>>]

\* recordMetric(metric) on the Store of metric objects; jsStore is the Store
\* with the queued functional update applied
RecordJs(metric) ==
  /\ jsStore' = AppendBounded(jsStore, JsNewMetric(metric), maxStoredMetrics)
  /\ jsLast' = metric
  /\ UNCHANGED <<config, hooks, monitor, storage, jsParsed>>

\* the save effect writes JSON.stringify(metrics), the load effect of the next
\* session reads JSON.parse(stored).slice(-max)
JsonRoundTrip ==
  /\ jsStore # <<>>
  /\ jsParsed' = [done |-> TRUE, of |-> jsStore,
                  list |-> JsSliceFrom(JsonParseArray(JsonStringifyArray(jsStore)),
                                       0 - maxStoredMetrics)]
  /\ UNCHANGED <<config, hooks, monitor, storage, jsStore, jsLast>>

\* ------------------------------------ two instances on one storage key
\* AdvancedAnalytics and AnalyticsDashboard both call usePerformanceMonitor()
\* with the default key; so do two tabs of the same origin
Instances == {1, 2}
Other(i) == 3 - i

\* the state of one instance after construction; rehydrated (history) is the
\* list its load effect read, wrote (history) that its save effect has written
NewInstance ==
  [metrics |-> <<>>, isLoading |-> TRUE, updates |-> <<>>, mountPending |-> TRUE,
   savePending |-> FALSE, rehydrated |-> <<>>, wrote |-> FALSE, calls |-> 0]

\* the metric names instance i records
OwnName(i) == IF i = 1 THEN "LCP" ELSE "CLS"

\* the variant of SetItem that appends to the stored list
SetItemMerging(stored, list) == StoredArray(stored.items \o list)

\* localStorage.setItem(key, JSON.stringify(metrics)) replaces the stored value
SetItem(stored, list) == StoredArray(list)

TabRecordMetric(i) ==
  /\ tabs' = [tabs EXCEPT ![i].updates = Append(@, UpdAppend(Metric(OwnName(i), 1, "good", now))),
                          ![i].calls = @ + 1]
  /\ UNCHANGED <<config, monitor, storage, jsVars, webVitals, widgets>>

TabMountEffects(i) ==
  /\ tabs[i].mountPending
  /\ LET rehydrate == enableLocalStorage /\ Sliceable(storage)
         list == JsSliceFrom(storage.items, 0 - maxStoredMetrics)
     IN tabs' = [tabs EXCEPT ![i].mountPending = FALSE,
                             ![i].updates = IF rehydrate THEN @ \o <<UpdSet(list), UpdLoaded>>
                                            ELSE Append(@, UpdLoaded),
                             ![i].rehydrated = IF rehydrate THEN list ELSE @]
  /\ UNCHANGED <<config, monitor, storage, jsVars, webVitals, widgets>>

TabRender(i) ==
  /\ tabs[i].updates # <<>>
  /\ ~tabs[i].mountPending
  /\ ~tabs[i].savePending
  /\ tabs' = [tabs EXCEPT ![i].metrics = ApplyMetrics(@, tabs[i].updates, maxStoredMetrics),
                          ![i].isLoading = (@ /\ ~HasOp(tabs[i].updates, "loaded")),
                          ![i].updates = <<>>,
                          ![i].savePending = TRUE]
  /\ UNCHANGED <<config, monitor, storage, jsVars, webVitals, widgets>>

\* the save effect of instance i writes
TabWrites(i) ==
  /\ tabs[i].savePending
  /\ ~tabs[i].isLoading
  /\ Len(tabs[i].metrics) > 0
  /\ enableLocalStorage
  /\ storageOk

TabSaveEffect(i) ==
  /\ tabs[i].savePending
  /\ tabs' = [tabs EXCEPT ![i].savePending = FALSE,
                          ![i].wrote = (@ \/ TabWrites(i))]
  /\ storage' = IF TabWrites(i) THEN SetItem(storage, tabs[i].metrics) ELSE storage
  /\ UNCHANGED <<config, monitor, jsVars, webVitals, widgets>>

\* ------------------------------------------------------------ useWebVitals
\* sampleRate = 1
DEFAULT_sampleRate == 100

\* a state update of useWebVitals: setIsSupported(b), setIsLoading(false),
\* setMetrics(prev => [...prev, m])
NoMetric == [id |-> 0, name |-> "", source |-> "", event |-> 0]
WvSupported(b) == [op |-> "supported", b |-> b, m |-> NoMetric]
WvLoaded == [op |-> "loaded", b |-> FALSE, m |-> NoMetric]
WvAppend(m) == [op |-> "append", b |-> FALSE, m |-> m]

RECURSIVE WvApplyMetrics(_, _)
WvApplyMetrics(cur, q) ==
  IF q = <<>> THEN cur
  ELSE WvApplyMetrics(IF Head(q).op = "append" THEN Append(cur, Head(q).m) ELSE cur, Tail(q))

RECURSIVE WvApplySupported(_, _)
WvApplySupported(cur, q) ==
  IF q = <<>> THEN cur
  ELSE WvApplySupported(IF Head(q).op = "supported" THEN Head(q).b ELSE cur, Tail(q))

\* the variant of SupportUpdates without the finally block
SupportUpdatesNoFinally(ok) == IF ok THEN <<WvSupported(TRUE), WvLoaded>> ELSE <<WvSupported(FALSE)>>

\* checkSupport after the import has settled: try or catch, then finally
SupportUpdates(ok) == <<WvSupported(ok), WvLoaded>>

\* the effects of the first commit: the support check starts (or gives up
\* outside a browser); the tracking effect returns at once, isLoading is true
WvMountEffects ==
  /\ wvSupport = "mount"
  /\ wvSupport' = IF hasWindow THEN "importing" ELSE "done"
  /\ wvUpdates' = IF hasWindow THEN wvUpdates ELSE Append(wvUpdates, WvLoaded)
  /\ UNCHANGED <<config, monitor, storage, jsVars, tabs, widgets, wvMetrics, wvIsLoading,
                 wvIsSupported, wvTrackPending, wvTracking, wvCalls, wvSubscriptions,
                 wvEvent>>

\* await import('web-vitals') of checkSupport settles
WvImportSettled ==
  /\ wvSupport = "importing"
  /\ wvSupport' = "done"
  /\ wvUpdates' = wvUpdates \o SupportUpdates(canImport)
  /\ UNCHANGED <<config, monitor, storage, jsVars, tabs, widgets, wvMetrics, wvIsLoading,
                 wvIsSupported, wvTrackPending, wvTracking, wvCalls, wvSubscriptions,
                 wvEvent>>

\* a render applies the queued updates; the tracking effect is scheduled when
\* isSupported or isLoading changed
WvRender ==
  /\ wvUpdates # <<>>
  /\ wvSupport # "mount"
  /\ ~wvTrackPending
  /\ wvMetrics' = WvApplyMetrics(wvMetrics, wvUpdates)
  /\ wvIsSupported' = WvApplySupported(wvIsSupported, wvUpdates)
  /\ wvIsLoading' = (wvIsLoading /\ \A i \in 1..Len(wvUpdates) : wvUpdates[i].op # "loaded")
  /\ wvUpdates' = <<>>
  /\ wvTrackPending' = (wvIsSupported' # wvIsSupported \/ wvIsLoading' # wvIsLoading)
  /\ UNCHANGED <<config, monitor, storage, jsVars, tabs, widgets, wvSupport, wvTracking, wvCalls,
                 wvSubscriptions, wvEvent>>

\* the tracking effect: if (!isSupported || isLoading) return; otherwise
\* initializeTracking starts its import
WvTrackEffect ==
  /\ wvTrackPending
  /\ wvTrackPending' = FALSE
  /\ wvTracking' = IF wvIsSupported /\ ~wvIsLoading THEN "importing" ELSE wvTracking
  /\ UNCHANGED <<config, monitor, storage, jsVars, tabs, widgets, wvMetrics, wvIsLoading,
                 wvIsSupported, wvUpdates, wvSupport, wvCalls, wvSubscriptions, wvEvent>>

\* the import of initializeTracking settles: onCLS .. onTTFB are registered,
\* or the error is caught
WvTrackImportSettled ==
  /\ wvTracking = "importing"
  /\ wvTracking' = IF canImport THEN "subscribed"
                  ELSE IF wvSubscriptions > 0 THEN "subscribed" ELSE "none"
  /\ wvSubscriptions' = IF canImport THEN wvSubscriptions + 1 ELSE wvSubscriptions
  /\ UNCHANGED <<config, monitor, storage, jsVars, tabs, widgets, wvMetrics, wvIsLoading,
                 wvIsSupported, wvUpdates, wvSupport, wvTrackPending, wvCalls, wvEvent>>

\* reportMetric(metric) up to its first await or its return; random is
\* Math.random() in percent, event the browser event the metric comes from
\* (0 for a metric the component made up)
ReportMetric(name, source, event, random) ==
  LET m == [id |-> Len(wvCalls) + 1, name |-> name, source |-> source, event |-> event]
      call(state) == [m |-> m, state |-> state]
  IN /\ wvCalls' = Append(wvCalls,
                          IF random > sampleRate THEN call("dropped")
                          ELSE IF hasWindow /\ endpoint THEN call("fetching")
                          ELSE call("resolved"))
     /\ wvUpdates' = IF random <= sampleRate /\ ~(hasWindow /\ endpoint)
                     THEN Append(wvUpdates, WvAppend(m)) ELSE wvUpdates
     /\ UNCHANGED <<config, monitor, storage, jsVars, tabs, widgets, wvMetrics, wvIsLoading,
                    wvIsSupported, wvSupport, wvTrackPending, wvTracking, wvSubscriptions>>

NoEvent == [id |-> 0, name |-> "", invoked |-> 0]

\* a browser metric event: the callback registered first reports it
WvCallback(name, random) ==
  /\ wvSubscriptions > 0
  /\ wvEvent' = [id |-> wvEvent.id + 1, name |-> name, invoked |-> 1]
  /\ ReportMetric(name, "callback", wvEvent.id + 1, random)

\* the callback of a further registration reports the same event: nothing
\* unsubscribes the callbacks registered by an earlier run of the effect
WvCallbackAgain(random) ==
  /\ wvEvent.id > 0
  /\ wvEvent.invoked < wvSubscriptions
  /\ wvEvent' = [wvEvent EXCEPT !.invoked = @ + 1]
  /\ ReportMetric(wvEvent.name, "callback", wvEvent.id, random)

\* the component calls the reportMetric the hook returns
WvReportManual(random) ==
  /\ ReportMetric("custom", "manual", 0, random)
  /\ UNCHANGED wvEvent

\* the component re-renders with another enableConsoleLogging (no state update
\* is queued, or WvRender has applied it just before): reportMetric is a new
\* function, so both effects are scheduled again
WvConfigChange ==
  /\ wvSupport = "done"
  /\ wvUpdates = <<>>
  /\ ~wvTrackPending
  /\ wvTracking # "importing"
  /\ wvSupport' = "mount"
  /\ wvTrackPending' = TRUE
  /\ UNCHANGED <<config, monitor, storage, jsVars, tabs, widgets, wvMetrics, wvIsLoading,
                 wvIsSupported, wvUpdates, wvTracking, wvCalls, wvSubscriptions, wvEvent>>

\* await fetch(...) of call k settles; a rejection is caught, so both
\* outcomes continue with setMetrics and resolve the promise of reportMetric
WvFetchSettled(k) ==
  /\ wvCalls[k].state = "fetching"
  /\ wvCalls' = [wvCalls EXCEPT ![k].state = "resolved"]
  /\ wvUpdates' = Append(wvUpdates, WvAppend(wvCalls[k].m))
  /\ UNCHANGED <<config, monitor, storage, jsVars, tabs, widgets, wvMetrics, wvIsLoading,
                 wvIsSupported, wvSupport, wvTrackPending, wvTracking, wvSubscriptions,
                 wvEvent>>

\* ------------------------------------------------- the Store (Spec)
Capacities == 0..MaxCapacity
StoreNames == {"", "LCP"}
StoreTimestamps == {NoNumber, 0}

\* ------------------------------------------------- useA11yAnnouncements
\* the two hooks of that name: src/hooks/accessibility/useA11yAnnouncements.ts
\* keeps one timeoutRef; src/hooks/useA11yAnnouncements.ts keeps a
\* clearTimeoutRef for the clearing timer as well
AnnouncerHooks == {"accessibility", "hooks"}
Regions == {"polite", "assertive"}
DEFAULT_delay == 100
DEFAULT_duration == 3000

\* a message is its number in the call order; 0 is the empty string
NoText == 0

ShowTimer(id, region, message, due) ==
  [id |-> id, kind |-> "show", region |-> region, message |-> message, due |-> due]
ClearTimer(id, region, message, due) ==
  [id |-> id, kind |-> "clear", region |-> region, message |-> message, due |-> due]

\* clearTimeout(ref): an id of a timer that has fired or was cleared is ignored
ClearTimeout(pending, ref) == {t \in pending : t.id # ref}

\* the timer the event loop runs next: the earliest due, the oldest first
NextDue(t) ==
  /\ t \in timers
  /\ \A u \in timers : u.due > t.due \/ (u.due = t.due /\ u.id >= t.id)

\* no IntersectionObserver is connected
NoObserver == [connected |-> FALSE, hasTriggered |-> FALSE]

InitWidgets ==
  /\ announcerHook = "none"
  /\ regionText = [r \in Regions |-> NoText]
  /\ shownAt = [r \in Regions |-> 0]
  /\ timers = {}
  /\ timeoutRef = 0
  /\ clearTimeoutRef = 0
  /\ nextTimer = 1
  /\ timerClock = 0
  /\ announced = 0
  /\ theme = "system"
  /\ resolvedTheme = "light"
  /\ mounted = FALSE
  /\ themeUpdates = <<>>
  /\ themeEffects = {"read", "resolve", "apply"}
  /\ handleChange = "none"
  /\ savedTheme = "unread"
  /\ themeEvents = 0
  /\ isIntersecting = FALSE
  /\ hasTriggered = FALSE
  /\ observerUpdates = <<>>
  /\ observerEffect = TRUE
  /\ observer = NoObserver
  /\ lastEntry = FALSE
  /\ entries = 0

\* useIntersectionObserver() with its default options
DEFAULT_triggerOnce == TRUE
InitObserverOptions == triggerOnce = DEFAULT_triggerOnce

\* a page without a saved theme, on a system that prefers light
InitThemeEnvironment ==
  /\ systemDark = FALSE
  /\ rootClassList = {}
  /\ themeItem = "null"

InitHooks ==
  /\ metrics = <<>>
  /\ isLoading = TRUE
  /\ updates = <<>>
  /\ mountPending = TRUE
  /\ savePending = FALSE
  /\ now = 1
  /\ recorded = <<>>
  /\ cleared = FALSE
  /\ lastAverages = NoCall
  /\ thrown = FALSE
  /\ callerStamped = FALSE
  /\ jsStore = <<>>
  /\ jsLast = JsUndefined
  /\ jsParsed = NoRoundTrip
  /\ tabs = [i \in Instances |-> NewInstance]
  /\ wvMetrics = <<>>
  /\ wvIsLoading = TRUE
  /\ wvIsSupported = FALSE
  /\ wvUpdates = <<>>
  /\ wvSupport = "mount"
  /\ wvTrackPending = FALSE
  /\ wvTracking = "none"
  /\ wvCalls = <<>>
  /\ wvSubscriptions = 0
  /\ wvEvent = NoEvent
  /\ InitWidgets

InitCommon == InitHooks /\ InitThemeEnvironment /\ InitObserverOptions

\* the configurable hook (part_006) with a working localStorage
\* useWebVitals with its default configuration, the library installed
InitDefaultWebVitals ==
  /\ canImport = TRUE
  /\ sampleRate = DEFAULT_sampleRate
  /\ endpoint = TRUE

\* the configurable hook (part_006) with a working localStorage
InitConfigurable ==
  /\ arrayCheck = TRUE
  /\ storageOk = TRUE
  /\ hasWindow = TRUE
  /\ InitDefaultWebVitals

Init ==
  /\ InitCommon
  /\ InitConfigurable
  /\ maxStoredMetrics \in Capacities
  /\ enableLocalStorage \in BOOLEAN
  /\ storage \in {NoItem} \cup {StoredArray(Persisted(k)) : k \in 0..(MaxCapacity + 1)}

Next ==
  \/ /\ Len(recorded) < MaxRecords
     /\ Len(updates) < MaxPending
     /\ \E n \in StoreNames, t \in StoreTimestamps : RecordMetric(n, 1, "good", t)
  \/ MountEffects
  \/ Render
  \/ SaveEffect
  \/ (Len(updates) < MaxPending /\ ClearMetrics)
  \/ (now < MaxTime /\ Tick(1))

Spec == Init /\ [][Next]_vars

\* --------------------------------- the Aggregator over a default-config Store
Ratings == {"good", "needs-improvement", "poor"}

InitAggregator ==
  /\ InitCommon
  /\ InitConfigurable
  /\ maxStoredMetrics = DEFAULT_maxStoredMetrics
  /\ enableLocalStorage = FALSE
  /\ storage = NoItem

\* ratings (SpecRating): two names, every rating
RatingNames == {"LCP", "custom"}

NextRating ==
  \/ /\ Len(recorded) < MaxRatings
     /\ Len(updates) < MaxPending
     /\ \E n \in RatingNames, r \in Ratings : RecordMetric(n, 1, r, NoNumber)
  \/ MountEffects
  \/ Render
  \/ SaveEffect

SpecRating == InitAggregator /\ [][NextRating]_vars

\* trends (SpecTrend): one group of same-named samples per behaviour
TrendNames == {"LCP", "CLS", "FID", "TTFB", "custom"}
TrendValues == {2000, 3000}

NextTrend ==
  \/ /\ Len(recorded) < MaxSamples
     /\ Len(updates) < MaxPending
     /\ \E n \in TrendNames, v \in TrendValues :
          /\ recorded # <<>> => n = recorded[1].name
          /\ RecordMetric(n, v, "good", NoNumber)
  \/ MountEffects
  \/ Render
  \/ SaveEffect

SpecTrend == InitAggregator /\ [][NextTrend]_vars

\* scores (SpecScore): the three core vitals and one other name; the clock
\* advances by whole days
ScoreNames == {"LCP", "FID", "CLS", "TTFB"}

NextScore ==
  \/ /\ Len(recorded) < MaxVitals
     /\ Len(updates) < MaxPending
     /\ \E n \in ScoreNames, r \in Ratings : RecordMetric(n, 1, r, NoNumber)
  \/ MountEffects
  \/ Render
  \/ SaveEffect
  \/ (now + DayMs <= MaxDays * DayMs + 1 /\ Tick(DayMs))

SpecScore == InitAggregator /\ [][NextScore]_vars

\* repeated getAverages calls (SpecAverages), with persistence enabled
AverageValues == {1}
AverageRanges == {NoNumber, 1}

InitAverages ==
  /\ InitCommon
  /\ InitConfigurable
  /\ maxStoredMetrics = DEFAULT_maxStoredMetrics
  /\ enableLocalStorage = TRUE
  /\ storage = NoItem

NextAverages ==
  \/ /\ Len(recorded) < MaxRecords
     /\ Len(updates) < MaxPending
     /\ \E v \in AverageValues : RecordMetric("LCP", v, "good", NoNumber)
  \/ MountEffects
  \/ Render
  \/ SaveEffect
  \/ (Len(updates) < MaxPending /\ ClearMetrics)
  \/ (now < MaxTime /\ Tick(1))
  \/ \E tr \in AverageRanges : GetAveragesCall(tr)

SpecAverages == InitAverages /\ [][NextAverages]_vars

\* ------------------------------------------------------------ properties
\* every queued update has been rendered and the mount effects have run
Settled == updates = <<>> /\ ~mountPending

LastN(s, k) == SubSeq(s, Len(s) - k + 1, Len(s))

WithName(list, n) == LET same(m) == m.name = n IN SelectSeq(list, same)

C2_SizeAtMostCapacity == Len(metrics) <= maxStoredMetrics

\* C3: getMetrics(n) is exactly the stored metrics named n, in order, for
\* every name n including the empty string.
C3_NameFilterExact ==
  \A n \in StoreNames : getMetrics(n, NoNumber) = WithName(metrics, n)

TimeRanges == 0..MaxTime

NotOlderThan(list, cutoff) ==
  LET keep(m) == m.timestamp >= cutoff IN SelectSeq(list, keep)

NewerThan(list, cutoff) ==
  LET keep(m) == m.timestamp > cutoff IN SelectSeq(list, keep)

\* C4 as stated: getMetrics(undefined, w) is exactly the stored metrics with
\* timestamp >= now - w.
C4_WindowInclusive ==
  \A w \in TimeRanges : getMetrics(NoName, w) = NotOlderThan(metrics, now - w)

\* C4 amended: for w > 0, getMetrics(undefined, w) is exactly the stored
\* metrics with timestamp > now - w (one at exactly now - w is excluded), in
\* insertion order; for w = 0 no time filter is applied.
C4_WindowExclusive ==
  \A w \in TimeRanges :
    getMetrics(NoName, w) = IF w = 0 THEN metrics ELSE NewerThan(metrics, now - w)

C4_Witness ==
  /\ Len(metrics) = 2
  /\ metrics[1].timestamp = now - 1
  /\ metrics[2].timestamp = now
  /\ getMetrics(NoName, 1) = <<metrics[2]>>

\* C10: once clearMetrics has been called and rendered, and until the next
\* recordMetric, getMetrics() is empty and (with persistence enabled) nothing
\* is stored under the storage key.
C10_ClearedStaysEmpty ==
  (cleared /\ Settled)
    => /\ getMetrics(NoName, NoNumber) = <<>>
       /\ (enableLocalStorage => storage = NoItem)

\* the most recent (up to) 5 stored entries named n
RecentOf(list, n) ==
  LET g == WithName(list, n) IN IF Len(g) <= 5 THEN g ELSE LastN(g, 5)

RECURSIVE CountGood(_)
CountGood(list) ==
  IF list = <<>> THEN 0
  ELSE (IF Head(list).rating = "good" THEN 1 ELSE 0) + CountGood(Tail(list))

RECURSIVE Total(_)
Total(list) == IF list = <<>> THEN 0 ELSE Head(list).value + Total(Tail(list))

\* C5: the rating getAverages gives a name is good when the good entries
\* among its last (up to) 5 are a strict majority, needs-improvement when at
\* least one but not a strict majority is good, poor when none is.
C5_RatingMajority ==
  \A n \in NamesOf(metrics) :
    LET recent == RecentOf(metrics, n)
        good == CountGood(recent)
        rating == getAverages(NoNumber)[n].rating
    IN /\ (2 * good > Len(recent)) => rating = "good"
       /\ (good >= 1 /\ 2 * good <= Len(recent)) => rating = "needs-improvement"
       /\ (good = 0) => rating = "poor"

C5_Witness ==
  /\ Len(WithName(metrics, "LCP")) = 6
  /\ WithName(metrics, "LCP")[1].rating = "good"
  /\ CountGood(WithName(metrics, "LCP")) = 3
  /\ getAverages(NoNumber)["LCP"].rating = "needs-improvement"
  /\ Len(WithName(metrics, "custom")) = 0

GGPPP == <<"good", "good", "poor", "poor", "poor">>

\* C6 as stated: last five ratings [good, good, poor, poor, poor] give the
\* rating poor.
C6_TwoOfFivePoor ==
  \A n \in NamesOf(metrics) :
    RatingsOf(RecentOf(metrics, n)) = GGPPP
      => getAverages(NoNumber)[n].rating = "poor"

\* C6 amended: last five ratings [good, good, poor, poor, poor] give the
\* rating needs-improvement (2 good out of 5: some, but not a majority).
C6_TwoOfFiveNeedsImprovement ==
  \A n \in NamesOf(metrics) :
    RatingsOf(RecentOf(metrics, n)) = GGPPP
      => getAverages(NoNumber)[n].rating = "needs-improvement"

C6_Witness ==
  /\ RatingsOf(WithName(metrics, "custom")) = GGPPP
  /\ getAverages(NoNumber)["custom"].rating = "needs-improvement"

Points(list, vital) ==
  IF WithName(list, vital) = <<>> THEN 0
  ELSE LET last == WithName(list, vital)[Len(WithName(list, vital))].rating
       IN IF last = "good" THEN 100
          ELSE IF last = "needs-improvement" THEN 75 ELSE 25

Present(list, vital) == IF WithName(list, vital) = <<>> THEN 0 ELSE 1

ExpectedScore(list) ==
  LET total == Points(list, "LCP") + Points(list, "FID") + Points(list, "CLS")
      cnt == Present(list, "LCP") + Present(list, "FID") + Present(list, "CLS")
  IN IF cnt = 0 THEN NoScore
     ELSE CHOOSE r \in 0..100 :
            2 * r * cnt - cnt <= 2 * total /\ 2 * total < 2 * r * cnt + cnt

\* C8 as stated: the score is taken over the core vitals present in the Store.
C8_ScoreOfStored == getPerformanceScore = ExpectedScore(metrics)

\* C8 amended: usePerformanceMonitor.getPerformanceScore takes the core
\* vitals present among the metrics of the last 24 hours (timestamp >
\* now - 86400000), the latest rating of each, mean rounded to the nearest
\* integer, and null exactly when none is present in that window;
\* useWebVitals.getPerformanceScore does the same over its whole list.
C8_ScoreOfLastDay ==
  /\ getPerformanceScore = ExpectedScore(NewerThan(metrics, now - 86400000))
  /\ WebVitalsScore(metrics) = ExpectedScore(metrics)

C8_Witness ==
  /\ Len(metrics) = 3
  /\ metrics[1] = Metric("LCP", 1, "poor", 1)
  /\ metrics[2] = Metric("LCP", 1, "good", now)
  /\ metrics[3] = Metric("FID", 1, "poor", now)
  /\ now > 86400000
  /\ getPerformanceScore = 63

\* a step that is a getAverages call with the argument of the previous call,
\* the Store not having changed in between
RepeatedCall ==
  /\ lastAverages'.n # lastAverages.n
  /\ lastAverages.clean
  /\ lastAverages'.timeRange = lastAverages.timeRange

\* C9 as stated: a repeated getAverages call returns the result of the
\* previous one and changes neither the Store nor the persisted copy.
C9_Idempotent ==
  [][RepeatedCall =>
       /\ lastAverages'.result = lastAverages.result
       /\ metrics' = metrics /\ updates' = updates /\ storage' = storage]_vars

\* C9 amended: a repeated getAverages call without a time range, or at the
\* same clock reading as the previous one, returns the result of the
\* previous one; no getAverages call changes the Store or the persisted copy.
C9_IdempotentNoRange ==
  [][/\ (RepeatedCall /\ (lastAverages.timeRange = NoNumber \/ lastAverages.at = now))
          => lastAverages'.result = lastAverages.result
     /\ (lastAverages'.n # lastAverages.n)
          => (metrics' = metrics /\ updates' = updates /\ storage' = storage)]_vars

C9_Witness ==
  /\ lastAverages.clean
  /\ lastAverages.timeRange = NoNumber
  /\ lastAverages.prev # NoNumber
  /\ lastAverages.prev < lastAverages.at
  /\ DOMAIN lastAverages.result = {"LCP"}
  /\ lastAverages.result["LCP"].count = 2
  /\ storage = StoredArray(metrics)

\* ------------------------------------------------------------ persistence
\* every recordMetric has been processed: its update is rendered and the save
\* effect of that render has run
Processed == Settled /\ ~savePending /\ recorded # <<>>

\* C11: with persistence enabled and storage writes succeeding, once every
\* recordMetric has been processed the stored value is the serialization of
\* the whole in-memory Store (same metrics, same order), and it has at most
\* capacity entries.
C11_PersistedIsStore ==
  (enableLocalStorage /\ storageOk /\ Processed)
    => /\ storage = StoredArray(metrics)
       /\ Len(storage.items) <= maxStoredMetrics

\* the part of C11 that holds for every capacity: stored value = Store
C11_PersistedEqualsStore ==
  (enableLocalStorage /\ storageOk /\ Processed) => storage = StoredArray(metrics)

\* ------------------ a localStorage that throws, or holds a foreign value
\* (SpecStorage): both variants of the hook; the fixed one (part_007) has no
\* configuration, it always persists and keeps MAX_STORED_METRICS entries
MAX_STORED_METRICS == 1000
StorageCapacities == 1..MaxCapacity

InitStorage ==
  /\ InitCommon
  /\ arrayCheck \in BOOLEAN
  /\ storageOk \in BOOLEAN
  /\ hasWindow = TRUE
  /\ InitDefaultWebVitals
  /\ maxStoredMetrics \in (IF arrayCheck THEN StorageCapacities ELSE {MAX_STORED_METRICS})
  /\ enableLocalStorage \in (IF arrayCheck THEN BOOLEAN ELSE {TRUE})
  /\ storage \in {NoItem, StoredArray(Persisted(1))}
                   \cup {StoredOther(kind, 1) : kind \in MalformedKinds}

NextStorage ==
  \/ /\ Len(recorded) < MaxRecords
     /\ Len(updates) < MaxPending
     /\ RecordMetric("LCP", 1, "good", NoNumber)
  \/ MountEffects
  \/ Render
  \/ SaveEffect
  \/ (Len(updates) < MaxPending /\ ClearMetrics)

SpecStorage == InitStorage /\ [][NextStorage]_vars

\* the Store a hook with persistence disabled holds once the same calls are
\* processed: what was recorded since the last clearMetrics, bounded
WithoutStorage ==
  ApplyMetrics(<<>>, [i \in 1..Len(recorded) |-> UpdAppend(recorded[i])], maxStoredMetrics)

\* C12: when the storage operations throw, no exception reaches a caller of
\* the hook (initialization, recordMetric, clearMetrics), and the in-memory
\* Store is the one a hook with persistence disabled would hold.
C12_StorageFailureContained ==
  /\ ~thrown
  /\ (~storageOk /\ Settled) => metrics = WithoutStorage

\* the part of C12 that holds: the Store is not affected by a failing storage
C12_StoreAsWithoutStorage == (~storageOk /\ Settled) => metrics = WithoutStorage

\* C18: when the persisted value is not parseable JSON or parses to something
\* that is not an array of metrics, initialization treats it as no data: once
\* the load has been processed isLoading is false and the Store holds only
\* what was recorded (nothing before the first recordMetric).
C18_MalformedIsNoData ==
  (enableLocalStorage /\ storageOk /\ storage.kind \in MalformedKinds /\ Settled)
    => (~isLoading /\ metrics = WithoutStorage)

\* the part of C18 that holds: a text that does not parse, and with the
\* Array.isArray test of part_006 every parsed value that is not an array
C18_NonArrayIsNoData ==
  (/\ enableLocalStorage /\ storageOk /\ Settled
   /\ \/ storage.kind \in {"unparseable", "object", "number"}
      \/ (storage.kind = "string" /\ arrayCheck))
    => (~isLoading /\ metrics = WithoutStorage)

\* ------------------------------ metric objects and their JSON (SpecRecord)
MaxJsRecords == 2

JsValues == {JsNumber(1), JsNaN}
JsTimestamps == {JsUndefined, JsNumber(0), JsNumber(2)}
JsUrls == {JsUndefined, JsString(""), JsString("/blog")}
JsMetadata == {JsUndefined,
               JsObject(<<Entry("note", JsNull)>>),
               JsObject(<<Entry("ratio", JsNaN)>>)}

\* the argument of recordMetric
MetricArgument(v, t, u, md) ==
  JsObject(<<Entry("name", JsString("LCP")), Entry("value", v),
             Entry("rating", JsString("good")), Entry("timestamp", t),
             Entry("url", u), Entry("metadata", md)>>)

InitRecord ==
  /\ InitCommon
  /\ arrayCheck = TRUE
  /\ storageOk = TRUE
  /\ hasWindow \in BOOLEAN
  /\ InitDefaultWebVitals
  /\ maxStoredMetrics = DEFAULT_maxStoredMetrics
  /\ enableLocalStorage = TRUE
  /\ storage = NoItem

NextRecord ==
  \/ /\ Len(jsStore) < MaxJsRecords
     /\ \E v \in JsValues, t \in JsTimestamps, u \in JsUrls, md \in JsMetadata :
          RecordJs(MetricArgument(v, t, u, md))
  \/ JsonRoundTrip

SpecRecord == InitRecord /\ [][NextRecord]_vars

\* two values are equal: objects property by property (a missing property
\* reads as undefined), other values as they are
SameValue(a, b) ==
  IF a.t = "object" /\ b.t = "object"
  THEN \A k \in JsKeys(a) \cup JsKeys(b) : JsGet(a, k) = JsGet(b, k)
  ELSE a = b

SameMetric(a, b) == \A f \in MetricFields : SameValue(JsGet(a, f), JsGet(b, f))

SameSequence(s, t) ==
  /\ Len(s) = Len(t)
  /\ \A i \in 1..Len(s) : SameMetric(s[i], t[i])

\* what JSON can write: finite numbers, strings, null (and undefined, left out)
JsonTags == {"number", "string", "null", "undefined"}
JsonSafe(x) ==
  IF x.t = "object" THEN \A i \in 1..Len(x.o) : x.o[i].val.t \in JsonTags
  ELSE x.t \in JsonTags
JsonSafeMetric(m) == \A f \in MetricFields : JsonSafe(JsGet(m, f))

\* C13 (as claimed): for every Store content produced by recordMetric,
\* serializing it to JSON and parsing it back yields an equal sequence, element
\* by element and field by field.
C13_RoundTrip == jsParsed.done => SameSequence(jsParsed.of, jsParsed.list)

\* C13 (amended): the round trip yields an equal sequence when every number in
\* the stored metrics (value, timestamp, metadata) is finite.
C13_RoundTripFinite ==
  (jsParsed.done /\ \A i \in 1..Len(jsParsed.of) : JsonSafeMetric(jsParsed.of[i]))
    => SameSequence(jsParsed.of, jsParsed.list)

\* two metrics went through the round trip, one without url and one with a
\* metadata object; the parsed objects are not the same objects (the undefined
\* properties are gone) but read the same
C13_Witness ==
  /\ jsParsed.done
  /\ Len(jsParsed.of) = 2
  /\ \A i \in 1..2 : JsonSafeMetric(jsParsed.of[i])
  /\ JsGet(jsParsed.of[1], "url") = JsUndefined
  /\ JsGet(jsParsed.of[2], "metadata").t = "object"
  /\ JsGet(jsParsed.of[2], "url") = JsString("/blog")
  /\ jsParsed.list # jsParsed.of
  /\ SameSequence(jsParsed.of, jsParsed.list)

\* C20: recordMetric stores the caller's timestamp unchanged whenever one is
\* supplied (any number, 0 included) and the current time only when it is
\* absent; it keeps a supplied url and otherwise stamps the current path when
\* a window is available.
C20_SuppliedKept ==
  (jsLast # JsUndefined)
    => LET m == jsStore[Len(jsStore)]
           t == JsGet(jsLast, "timestamp")
           u == JsGet(jsLast, "url")
       IN /\ JsGet(m, "timestamp") = IF t.t = "number" THEN t ELSE JsNumber(now)
          /\ JsGet(m, "url") = IF u.t = "string" THEN u
                               ELSE IF hasWindow THEN JsString(Pathname) ELSE JsUndefined

\* the part of C20 that holds: a truthy timestamp or url is kept, an absent
\* one is stamped
C20_TruthyKept ==
  (jsLast # JsUndefined)
    => LET m == jsStore[Len(jsStore)]
           t == JsGet(jsLast, "timestamp")
           u == JsGet(jsLast, "url")
       IN /\ (t \notin {JsNumber(0)})
               => JsGet(m, "timestamp") = IF t.t = "number" THEN t ELSE JsNumber(now)
          /\ (u \notin {JsString("")})
               => JsGet(m, "url") = IF u.t = "string" THEN u
                                    ELSE IF hasWindow THEN JsString(Pathname) ELSE JsUndefined

\* ------------------------------------ timestamps in the Store (SpecStamps)
SuppliedTimestamps == {NoNumber} \cup 1..MaxTime

InitStamps ==
  /\ InitCommon
  /\ InitConfigurable
  /\ maxStoredMetrics \in StorageCapacities
  /\ enableLocalStorage = TRUE
  /\ storage \in {NoItem, StoredArray(Persisted(1))}

NextStamps ==
  \/ /\ Len(recorded) < MaxRecords
     /\ Len(updates) < MaxPending
     /\ \E t \in SuppliedTimestamps : RecordMetric("LCP", 1, "good", t)
  \/ MountEffects
  \/ Render
  \/ SaveEffect
  \/ (now < MaxTime /\ Tick(1))

SpecStamps == InitStamps /\ [][NextStamps]_vars

NonDecreasing(list) ==
  \A i \in 1..Len(list), j \in 1..Len(list) :
    i < j => list[i].timestamp <= list[j].timestamp

\* C17 (as claimed): in every reachable Store state the timestamps are
\* non-decreasing in insertion order, whether or not recordMetric calls
\* supplied their own timestamps, rehydration included.
C17_TimestampsNonDecreasing == NonDecreasing(metrics)

\* C17 (amended): the timestamps of the Store are non-decreasing in insertion
\* order as long as no recordMetric call supplied its own timestamp (every
\* metric was stamped with the clock, and the rehydrated list was too).
C17_ClockStampedNonDecreasing == (~callerStamped) => NonDecreasing(metrics)

\* a rehydrated metric followed by one stamped later by the clock
C17_Witness ==
  /\ ~callerStamped
  /\ Settled
  /\ Len(metrics) = 2
  /\ metrics[1].name = "FID"
  /\ metrics[2].name = "LCP"
  /\ metrics[1].timestamp < metrics[2].timestamp

\* --------------------------------------- two instances, one key (SpecTabs)
MaxTabRecords == 2

InitTabs ==
  /\ InitCommon
  /\ InitConfigurable
  /\ maxStoredMetrics = DEFAULT_maxStoredMetrics
  /\ enableLocalStorage = TRUE
  /\ storage = NoItem

NextTabs ==
  \E i \in Instances :
    \/ /\ tabs[i].calls < MaxTabRecords
       /\ Len(tabs[i].updates) < MaxPending
       /\ TabRecordMetric(i)
    \/ TabMountEffects(i)
    \/ TabRender(i)
    \/ TabSaveEffect(i)

SpecTabs == InitTabs /\ [][NextTabs]_vars

\* this step is a write of instance i
WriteStep(i) == TabWrites(i) /\ ~tabs'[i].savePending

NamesIn(list) == {list[k].name : k \in 1..Len(list)}
ElementsOf(list) == {list[k] : k \in 1..Len(list)}

\* C19 (as claimed): whenever an instance writes, the persisted value becomes
\* its own full Store and nothing of the other instance: metrics recorded only
\* by the other instance are absent from it.
C19_LastWriterOnly ==
  [][\A i \in Instances :
       WriteStep(i) => /\ storage' = StoredArray(tabs[i].metrics)
                       /\ OwnName(Other(i)) \notin NamesIn(storage'.items)]_vars

\* C19 (amended): whenever an instance writes, the persisted value becomes its
\* own full Store; nothing is merged at the write, so a metric recorded only by
\* the other instance is in it only if the writer read it at its rehydration.
C19_LastWriterStore ==
  [][\A i \in Instances :
       WriteStep(i) => /\ storage' = StoredArray(tabs[i].metrics)
                       /\ \A m \in ElementsOf(storage'.items) :
                            m.name = OwnName(Other(i)) => m \in ElementsOf(tabs[i].rehydrated)]_vars

\* both instances have written, instance 2 last: the stored list is its Store
\* and the metric instance 1 recorded and wrote is gone
C19_Witness ==
  /\ tabs[1].wrote /\ tabs[2].wrote
  /\ ~tabs[1].savePending /\ ~tabs[2].savePending
  /\ tabs[1].updates = <<>> /\ tabs[2].updates = <<>>
  /\ "LCP" \in NamesIn(tabs[1].metrics)
  /\ storage = StoredArray(tabs[2].metrics)
  /\ NamesIn(storage.items) = {"CLS"}

\* ------------------------------------------- useWebVitals (SpecWebVitals)
MaxReports == 3

VitalNames == {"LCP", "CLS"}
SampleRates == {50, DEFAULT_sampleRate}
\* Math.random(), in percent
Randoms == {0, 99}

InitWebVitals ==
  /\ InitCommon
  /\ arrayCheck = TRUE
  /\ storageOk = TRUE
  /\ maxStoredMetrics = DEFAULT_maxStoredMetrics
  /\ enableLocalStorage = TRUE
  /\ storage = NoItem
  /\ hasWindow \in BOOLEAN
  /\ canImport \in BOOLEAN
  /\ sampleRate \in SampleRates
  /\ endpoint \in BOOLEAN

NextWebVitals ==
  \/ WvMountEffects
  \/ WvImportSettled
  \/ WvRender
  \/ WvTrackEffect
  \/ WvTrackImportSettled
  \/ /\ Len(wvCalls) < MaxReports
     /\ \E name \in VitalNames, random \in Randoms : WvCallback(name, random)
  \/ /\ Len(wvCalls) < MaxReports
     /\ \E random \in Randoms : WvReportManual(random)
  \/ \E k \in 1..Len(wvCalls) : WvFetchSettled(k)

SpecWebVitals == InitWebVitals /\ [][NextWebVitals]_vars

\* React runs the scheduled effects and renders, and a dynamic import settles;
\* nothing makes a fetch settle or a browser callback fire
SpecWebVitalsFair ==
  /\ SpecWebVitals
  /\ WF_vars(WvMountEffects)
  /\ WF_vars(WvImportSettled)
  /\ WF_vars(WvRender)
  /\ WF_vars(WvTrackEffect)

\* the metrics list once the queued updates are rendered
WvStored == WvApplyMetrics(wvMetrics, wvUpdates)

\* C14: the metrics of useWebVitals are in the order their browser callbacks
\* fired: of two callbacks that both passed sampling, the earlier one's metric
\* precedes the later one's, whatever the network does.
C14_CallbackOrder ==
  \A i \in 1..Len(WvStored), j \in 1..Len(WvStored) :
    (/\ i < j
     /\ WvStored[i].source = "callback"
     /\ WvStored[j].source = "callback") => WvStored[i].id < WvStored[j].id

\* the part of C14 that holds: without an endpoint (or a window) nothing is
\* awaited and the list is in call order
C14_OrderWithoutFetch ==
  (~(hasWindow /\ endpoint))
    => \A i \in 1..Len(WvStored), j \in 1..Len(WvStored) :
         i < j => WvStored[i].id < WvStored[j].id

\* C15: every metric handed to reportMetric is appended, whatever the Reporter
\* does with it: once the promise of a call has settled (the call returned
\* after the sampling test, or after its fetch resolved or failed) its metric
\* is in the list, and no call ends rejected.
C15_HandedIsStored ==
  \A k \in 1..Len(wvCalls) :
    /\ wvCalls[k].state # "rejected"
    /\ (wvCalls[k].state \in {"resolved", "dropped"})
         => \E i \in 1..Len(WvStored) : WvStored[i] = wvCalls[k].m

\* the part of C15 that holds: a call that passed sampling and whose fetch has
\* settled, either way, has appended its metric
C15_SettledFetchIsStored ==
  \A k \in 1..Len(wvCalls) :
    (wvCalls[k].state = "resolved") => \E i \in 1..Len(WvStored) : WvStored[i] = wvCalls[k].m

\* the library cannot be loaded, or there is no window
Unsupported == ~hasWindow \/ ~canImport

\* C16: when the instrumentation module cannot be loaded or the code runs
\* outside a browser, useWebVitals never subscribes to a metric callback and
\* appends no collected metric, and it eventually stays at isLoading = false
\* with isSupported = false.
C16_UnsupportedSettles ==
  /\ [](Unsupported => /\ wvTracking # "subscribed"
                       /\ wvSubscriptions = 0
                       /\ ~wvIsSupported
                       /\ \A k \in 1..Len(wvCalls) : wvCalls[k].m.source # "callback")
  /\ <>[](Unsupported => (~wvIsLoading /\ ~wvIsSupported))

\* in a browser without the library: the import has failed, the render and
\* the tracking effect after it have run, and nothing is subscribed
C16_Witness ==
  /\ hasWindow
  /\ ~canImport
  /\ wvSupport = "done"
  /\ wvUpdates = <<>>
  /\ ~wvTrackPending
  /\ ~wvIsLoading
  /\ ~wvIsSupported
  /\ wvTracking = "none"

\* ------------------- useWebVitals next to a small Store bound (SpecVitalsBound)
\* useWebVitals takes no capacity; the bound compared with is the one of the
\* Store of usePerformanceMonitor, here small enough to be passed
InitVitalsBound ==
  /\ InitCommon
  /\ arrayCheck = TRUE
  /\ storageOk = TRUE
  /\ maxStoredMetrics \in StorageCapacities
  /\ enableLocalStorage = TRUE
  /\ storage = NoItem
  /\ hasWindow = TRUE
  /\ canImport = TRUE
  /\ sampleRate = DEFAULT_sampleRate
  /\ endpoint \in BOOLEAN

SpecVitalsBound == InitVitalsBound /\ [][NextWebVitals]_vars

\* C21: the metrics list of useWebVitals is capacity-bounded: after any
\* sequence of collected or manually reported metrics its length never exceeds
\* the Store bound.
C21_VitalsBounded == Len(wvMetrics) <= maxStoredMetrics

\* ------------------------------------------- recording before rehydration
OnlyAppends(q) == \A i \in 1..Len(q) : q[i].op = "append"

\* C22: a recorded metric leaves the Store only through capacity eviction or
\* clearMetrics: when the load effect runs while recordMetric updates are
\* still queued (capacity at least 1, no clearMetrics among them), the metric
\* recorded last is the last one of the Store that the queue, rehydration
\* included, produces.
C22_RecordedBeforeLoadKept ==
  [][(/\ mountPending /\ ~mountPending'
      /\ maxStoredMetrics >= 1
      /\ updates # <<>>
      /\ OnlyAppends(updates))
     => LET after == ApplyMetrics(metrics', updates', maxStoredMetrics)
        IN /\ after # <<>>
           /\ after[Len(after)] = updates[Len(updates)].m]_vars

\* the part of C22 that holds: without a persisted list to rehydrate, the metrics
\* recorded before the load effect stay
C22_KeptWithoutRehydration ==
  [][(/\ mountPending /\ ~mountPending'
      /\ maxStoredMetrics >= 1
      /\ updates # <<>>
      /\ OnlyAppends(updates)
      /\ ~(enableLocalStorage /\ Sliceable(storage)))
     => LET after == ApplyMetrics(metrics', updates', maxStoredMetrics)
        IN /\ after # <<>>
           /\ after[Len(after)] = updates[Len(updates)].m]_vars

\* ---------------------------------- initialization paths (SpecStorageFair)
\* React runs the effects of a commit and renders queued updates
SpecStorageFair ==
  /\ SpecStorage
  /\ WF_vars(MountEffects)
  /\ WF_vars(Render)
  /\ WF_vars(SaveEffect)

\* C23: the hook never writes to the storage key while isLoading is true (a
\* step that stores a list is taken with isLoading false, after the load effect
\* has read the key), and isLoading becomes false, and stays false, on every
\* initialization path: persistence disabled, no stored value, a value that
\* does not parse or is not an array, a throwing storage, success.
C23_NoWriteWhileLoading ==
  /\ [][(storage' # storage /\ storage'.kind = "array")
          => (~isLoading /\ ~mountPending)]_vars
  /\ <>[](~isLoading)

\* the persisted history was read, the Store grew, and the save effect has
\* replaced the stored list with isLoading false
C23_Witness ==
  /\ ~isLoading
  /\ Processed
  /\ enableLocalStorage
  /\ Len(metrics) = 2
  /\ metrics[1].name = "FID"
  /\ storage = StoredArray(metrics)

\* ------------------------- the tracking effect runs again (SpecVitalsRerun)
MaxSubscriptions == 2

InitVitalsRerun ==
  /\ InitCommon
  /\ arrayCheck = TRUE
  /\ storageOk = TRUE
  /\ maxStoredMetrics = DEFAULT_maxStoredMetrics
  /\ enableLocalStorage = TRUE
  /\ storage = NoItem
  /\ hasWindow = TRUE
  /\ canImport = TRUE
  /\ sampleRate = DEFAULT_sampleRate
  /\ endpoint \in BOOLEAN

NextVitalsRerun ==
  \/ WvMountEffects
  \/ WvImportSettled
  \/ WvRender
  \/ WvTrackEffect
  \/ WvTrackImportSettled
  \/ (wvSubscriptions < MaxSubscriptions /\ WvConfigChange)
  \/ /\ Len(wvCalls) < MaxReports
     /\ \E name \in VitalNames : WvCallback(name, 0)
  \/ /\ Len(wvCalls) < MaxReports
     /\ WvCallbackAgain(0)
  \/ \E k \in 1..Len(wvCalls) : WvFetchSettled(k)

SpecVitalsRerun == InitVitalsRerun /\ [][NextVitalsRerun]_vars

\* the entries and the network deliveries of browser event e
EntriesOf(e) == {i \in 1..Len(WvStored) : WvStored[i].event = e}
DeliveriesOf(e) ==
  {k \in 1..Len(wvCalls) : /\ wvCalls[k].m.event = e
                           /\ hasWindow /\ endpoint
                           /\ wvCalls[k].state \in {"fetching", "resolved"}}

\* C24: each browser metric event results in at most one entry of the metrics
\* list and at most one network delivery attempt, even when the tracking
\* effect has run more than once.
C24_OneEntryPerEvent ==
  \A e \in 1..wvEvent.id :
    /\ Cardinality(EntriesOf(e)) <= 1
    /\ Cardinality(DeliveriesOf(e)) <= 1

\* the part of C24 that holds: while the callbacks were registered once
C24_OneEntryPerRegistration ==
  (wvSubscriptions <= 1)
    => \A e \in 1..wvEvent.id :
         /\ Cardinality(EntriesOf(e)) <= 1
         /\ Cardinality(DeliveriesOf(e)) <= 1

\* ------------------------------------------------- useA11yAnnouncements
\* the mount effect creates the two live regions; before it politeRef.current
\* and assertiveRef.current are null and announce returns at once
AnnouncerMount(hook) ==
  /\ announcerHook = "none"
  /\ announcerHook' = hook
  /\ UNCHANGED <<config, monitor, storage, jsVars, tabs, webVitals, themeVars, observerVars, regionText, shownAt,
                 timers, timeoutRef, clearTimeoutRef, nextTimer, timerClock, announced>>

\* the timers left and the text of the target region after the clearPrevious
\* step (clearPrevious = true): the first hook clears only when timeoutRef is
\* set, the second always, and it clears clearTimeoutRef too
ClearedTimers ==
  IF announcerHook = "hooks"
    THEN ClearTimeout(ClearTimeout(timers, timeoutRef), clearTimeoutRef)
    ELSE ClearTimeout(timers, timeoutRef)

ClearedText(priority) ==
  IF announcerHook = "hooks" \/ timeoutRef # 0
    THEN [regionText EXCEPT ![priority] = NoText]
    ELSE regionText

\* announce(message, {priority}) with the default delay, clearPrevious and duration
Announce(message, priority) ==
  /\ announcerHook # "none"
  /\ announced' = announced + 1
  /\ IF announcerHook = "hooks" /\ message = NoText
       THEN UNCHANGED <<regionText, timers, timeoutRef, nextTimer>>
       ELSE /\ regionText' = ClearedText(priority)
            /\ timers' = ClearedTimers \cup
                 {ShowTimer(nextTimer, priority, message, timerClock + DEFAULT_delay)}
            /\ timeoutRef' = nextTimer
            /\ nextTimer' = nextTimer + 1
  /\ UNCHANGED <<config, monitor, storage, jsVars, tabs, webVitals, themeVars, observerVars, announcerHook, shownAt,
                 clearTimeoutRef, timerClock>>

\* the callback of the outer setTimeout: writes the message and starts the
\* timer that clears it; only the second hook keeps that timer's id
ShowTimerFires ==
  \E t \in timers :
    /\ NextDue(t) /\ t.kind = "show" /\ t.due <= timerClock
    /\ regionText' = [regionText EXCEPT ![t.region] = t.message]
    /\ shownAt' = [shownAt EXCEPT ![t.region] = timerClock]
    /\ timers' = (timers \ {t}) \cup
         {ClearTimer(nextTimer, t.region, t.message, timerClock + DEFAULT_duration)}
    /\ clearTimeoutRef' = IF announcerHook = "hooks" THEN nextTimer ELSE clearTimeoutRef
    /\ nextTimer' = nextTimer + 1
    /\ UNCHANGED <<config, monitor, storage, jsVars, tabs, webVitals, themeVars, observerVars, announcerHook,
                   timeoutRef, timerClock, announced>>

\* the callback of the inner setTimeout: empties the region
ClearTimerFires ==
  \E t \in timers :
    /\ NextDue(t) /\ t.kind = "clear" /\ t.due <= timerClock
    /\ regionText' = [regionText EXCEPT ![t.region] = NoText]
    /\ timers' = timers \ {t}
    /\ UNCHANGED <<config, monitor, storage, jsVars, tabs, webVitals, themeVars, observerVars, announcerHook, shownAt,
                   timeoutRef, clearTimeoutRef, nextTimer, timerClock, announced>>

\* time passes: by d ms, or up to the next timer when that is due earlier
Advance(d) ==
  /\ \A t \in timers : t.due > timerClock
  /\ timerClock' = IF \E t \in timers : t.due < timerClock + d
                THEN (CHOOSE t \in timers : NextDue(t)).due
                ELSE timerClock + d
  /\ UNCHANGED <<config, monitor, storage, jsVars, tabs, webVitals, themeVars, observerVars, announcerHook,
                 regionText, shownAt, timers, timeoutRef, clearTimeoutRef, nextTimer,
                 announced>>

MaxAnnounces == 2
MaxClock == 3200
Gaps == {2000}

InitAnnouncer ==
  /\ InitCommon
  /\ InitConfigurable
  /\ maxStoredMetrics = DEFAULT_maxStoredMetrics
  /\ enableLocalStorage = TRUE
  /\ storage = NoItem

\* the messages of a run are numbered in call order; an empty message is 0
NextAnnouncer ==
  \/ \E hook \in AnnouncerHooks : AnnouncerMount(hook)
  \/ /\ announced < MaxAnnounces
     /\ \E message \in {NoText, announced + 1}, priority \in Regions :
          Announce(message, priority)
  \/ ShowTimerFires
  \/ ClearTimerFires
  \/ \E d \in Gaps : timerClock < MaxClock /\ Advance(d)

SpecAnnouncer == InitAnnouncer /\ [][NextAnnouncer]_vars

\* every announce call goes to the polite region (the default priority)
NextAnnouncerPolite ==
  \/ \E hook \in AnnouncerHooks : AnnouncerMount(hook)
  \/ /\ announced < MaxAnnounces
     /\ \E message \in {NoText, announced + 1} : Announce(message, "polite")
  \/ ShowTimerFires
  \/ ClearTimerFires
  \/ \E d \in Gaps : timerClock < MaxClock /\ Advance(d)

SpecAnnouncerPolite == InitAnnouncer /\ [][NextAnnouncerPolite]_vars

\* a step of a timer (no announce call) that empties a region
BlankedByTimer(r) ==
  regionText[r] # NoText /\ regionText'[r] = NoText /\ announced' = announced

\* C25: with announce calls of default options on one live region (polite), a
\* message written to the region is emptied by a timer only when its own
\* display duration of 3000 ms has elapsed; the clearing timer of an earlier
\* announcement never empties it before that
C25_NotBlankedEarly ==
  [][BlankedByTimer("polite") => timerClock >= shownAt["polite"] + DEFAULT_duration]_vars

\* the same for the hook that keeps clearTimeoutRef (src/hooks/useA11yAnnouncements.ts)
C25_NotBlankedEarlyWithClearRef ==
  [][(announcerHook = "hooks" /\ BlankedByTimer("polite"))
       => timerClock >= shownAt["polite"] + DEFAULT_duration]_vars

\* the region an announce step has set its timer for
AnnouncedTo(r) ==
  /\ announced' = announced + 1
  /\ \E t \in timers' : t.id = timeoutRef' /\ t.id = nextTimer /\ t.region = r

\* C26: an announce call for one region does not cancel the pending, not yet
\* shown announcement of a non-empty message for the other region (so that
\* the message is written to its region when its delay has passed)
C26_OtherRegionKept ==
  [][\A r \in Regions : AnnouncedTo(r) =>
       \A t \in timers : (t.kind = "show" /\ t.region # r /\ t.message # NoText)
                            => t \in timers']_vars

\* trends of groups that start with zeros (SpecTrendZero)
TrendZeroValues == {0, 4}

NextTrendZero ==
  \/ /\ Len(recorded) < MaxSamples
     /\ Len(updates) < MaxPending
     /\ \E n \in TrendNames, v \in TrendZeroValues :
          /\ recorded # <<>> => n = recorded[1].name
          /\ RecordMetric(n, v, "good", NoNumber)
  \/ MountEffects
  \/ Render
  \/ SaveEffect

SpecTrendZero == InitAggregator /\ [][NextTrendZero]_vars

\* C27: for a group of at least 10 same-named metrics whose first-half mean
\* is 0 the trend is stable when the second-half mean is 0 too, and when the
\* second-half mean is positive it is declining for LCP, CLS, FID, TTFB and
\* improving for every other name.
C27_ZeroFirstHalfTrend ==
  \A n \in NamesOf(metrics) :
    LET g == WithName(metrics, n)
        mid == Len(g) \div 2
        s1 == Total(SubSeq(g, 1, mid))
        s2 == Total(SubSeq(g, mid + 1, Len(g)))
        trend == getAverages(NoNumber)[n].trend
    IN (Len(g) >= 10 /\ s1 = 0) =>
         IF s2 = 0 THEN trend = "stable"
         ELSE IF n \in {"LCP", "CLS", "FID", "TTFB"}
              THEN trend = "declining"
              ELSE trend = "improving"

C27_Witness ==
  /\ Len(metrics) = 10
  /\ \A i \in 1..5 : metrics[i].name = "custom" /\ metrics[i].value = 0
  /\ \A i \in 6..10 : metrics[i].name = "custom" /\ metrics[i].value = 4
  /\ getAverages(NoNumber)["custom"].trend = "improving"

\* ---------------------------------------------------------- ThemeProvider
Themes == {"light", "dark", "system"}
ThemeClasses == {"light", "dark"}

\* what localStorage['theme'] may hold when the page loads: nothing, a theme,
\* or something else
SavedThemes == {"null", "light", "dark", "system", "sepia"}

\* savedTheme && ['light', 'dark', 'system'].includes(savedTheme)
IsTheme(saved) == saved \in Themes

\* updateResolvedTheme: the value it passes to setResolvedTheme
ResolvedOf(t, dark) ==
  IF t = "system" THEN (IF dark THEN "dark" ELSE "light") ELSE t

\* root.classList.remove('light', 'dark'); root.classList.add(resolvedTheme)
ApplyClassesNoRemove(classList, resolved) == classList \cup {resolved}
ApplyClasses(classList, resolved) == (classList \ ThemeClasses) \cup {resolved}

\* ThemeToggle's handleClick: the theme after the current one in its list
CycleTheme(t) ==
  CASE t = "light" -> "dark"
    [] t = "dark" -> "system"
    [] OTHER -> "light"

SetState(variable, value) == [variable |-> variable, value |-> value]

RECURSIVE StateAfter(_, _, _)
StateAfter(current, variable, queue) ==
  IF queue = <<>> THEN current
  ELSE StateAfter(IF Head(queue).variable = variable THEN Head(queue).value ELSE current,
                  variable, Tail(queue))

\* the read effect: getItem throws when localStorage does not work
ReadTheme == IF storageOk THEN themeItem ELSE "threw"
ReadUpdatesIgnoringSaved == <<SetState("mounted", TRUE)>>
ReadUpdates ==
  (IF IsTheme(ReadTheme) THEN <<SetState("theme", ReadTheme)>> ELSE <<>>)
    \o <<SetState("mounted", TRUE)>>

\* the passive effects of the last commit, in the order of their declaration:
\* the read effect (first commit only), the resolve effect, the apply effect;
\* the last two return at once while mounted is false
ThemeEffects ==
  /\ themeEffects # {}
  /\ themeEffects' = {}
  /\ savedTheme' = IF "read" \in themeEffects THEN ReadTheme ELSE savedTheme
  /\ themeUpdates' = themeUpdates
       \o (IF "read" \in themeEffects THEN ReadUpdates ELSE <<>>)
       \o (IF "resolve" \in themeEffects /\ mounted
             THEN <<SetState("resolvedTheme", ResolvedOf(theme, systemDark))>>
             ELSE <<>>)
  /\ handleChange' = IF "resolve" \in themeEffects /\ mounted THEN theme ELSE handleChange
  /\ rootClassList' = IF "apply" \in themeEffects /\ mounted
                        THEN ApplyClasses(rootClassList, resolvedTheme)
                        ELSE rootClassList
  /\ themeItem' = IF "apply" \in themeEffects /\ mounted /\ storageOk
                    THEN theme ELSE themeItem
  /\ UNCHANGED <<config, monitor, storage, jsVars, tabs, webVitals, announcer, observerVars,
                 theme, resolvedTheme, mounted, systemDark, themeEvents>>

\* a render applies the queued updates; an effect is scheduled when one of
\* its dependencies has changed
ThemeRender ==
  /\ themeEffects = {}
  /\ themeUpdates # <<>>
  /\ theme' = StateAfter(theme, "theme", themeUpdates)
  /\ resolvedTheme' = StateAfter(resolvedTheme, "resolvedTheme", themeUpdates)
  /\ mounted' = StateAfter(mounted, "mounted", themeUpdates)
  /\ themeUpdates' = <<>>
  /\ themeEffects' =
       (IF theme' # theme \/ mounted' # mounted THEN {"resolve"} ELSE {})
         \cup (IF theme' # theme \/ resolvedTheme' # resolvedTheme \/ mounted' # mounted
                 THEN {"apply"} ELSE {})
  /\ UNCHANGED <<config, monitor, storage, jsVars, tabs, webVitals, announcer, observerVars,
                 handleChange, systemDark, rootClassList, themeItem, savedTheme,
                 themeEvents>>

\* handleSetTheme(newTheme), called by a child of the provider
SetTheme(newTheme) ==
  /\ "read" \notin themeEffects
  /\ themeUpdates' = Append(themeUpdates, SetState("theme", newTheme))
  /\ themeEvents' = themeEvents + 1
  /\ UNCHANGED <<config, monitor, storage, jsVars, tabs, webVitals, announcer, observerVars,
                 theme, resolvedTheme, mounted, themeEffects, handleChange, systemDark,
                 rootClassList, themeItem, savedTheme>>

\* ThemeToggle (variant button) renders its button once mounted
ThemeToggleClick == mounted /\ SetTheme(CycleTheme(theme))

\* the system colour scheme changes; the registered listener runs
\* updateResolvedTheme with the theme of the render that registered it
SystemChange ==
  /\ systemDark' = ~systemDark
  /\ themeUpdates' =
       IF handleChange = "none" THEN themeUpdates
       ELSE Append(themeUpdates,
                   SetState("resolvedTheme", ResolvedOf(handleChange, systemDark')))
  /\ themeEvents' = themeEvents + 1
  /\ UNCHANGED <<config, monitor, storage, jsVars, tabs, webVitals, announcer, observerVars,
                 theme, resolvedTheme, mounted, themeEffects, handleChange,
                 rootClassList, themeItem, savedTheme>>

MaxThemeEvents == 3

InitTheme ==
  /\ InitHooks
  /\ InitObserverOptions
  /\ arrayCheck = TRUE
  /\ hasWindow = TRUE
  /\ InitDefaultWebVitals
  /\ storageOk \in BOOLEAN
  /\ maxStoredMetrics = DEFAULT_maxStoredMetrics
  /\ enableLocalStorage = TRUE
  /\ storage = NoItem
  /\ systemDark \in BOOLEAN
  /\ rootClassList \in SUBSET ThemeClasses
  /\ themeItem \in SavedThemes

NextTheme ==
  \/ ThemeEffects
  \/ ThemeRender
  \/ (themeEvents < MaxThemeEvents /\ \E newTheme \in Themes : SetTheme(newTheme))
  \/ (themeEvents < MaxThemeEvents /\ ThemeToggleClick)
  \/ (themeEvents < MaxThemeEvents /\ SystemChange)

SpecTheme == InitTheme /\ [][NextTheme]_vars

\* mounted, and no update and no effect is outstanding
ThemeSettled == mounted /\ themeUpdates = <<>> /\ themeEffects = {}

\* C28: once mounted and settled, after any setTheme calls and system
\* colour-scheme changes, resolvedTheme is theme when theme is light or dark
\* and the system preference when theme is system, and the document root
\* has exactly one of the classes light and dark: resolvedTheme
C28_ResolvedApplied ==
  ThemeSettled =>
    /\ theme \in ThemeClasses => resolvedTheme = theme
    /\ theme = "system" => resolvedTheme = (IF systemDark THEN "dark" ELSE "light")
    /\ rootClassList = {resolvedTheme}

C28_Witness ==
  /\ ThemeSettled
  /\ themeEvents = MaxThemeEvents
  /\ savedTheme = "light"
  /\ theme = "system"
  /\ systemDark
  /\ resolvedTheme = "dark"
  /\ rootClassList = {"dark"}

\* the theme a saved value stands for: itself when it is light, dark or
\* system, and system when it is anything else or could not be read
RestoredTheme(saved) == IF saved \in {"light", "dark", "system"} THEN saved ELSE "system"

\* C29: the stored preference is not overwritten before it has been read; a
\* valid saved theme is restored on mount and an invalid or unreadable one
\* leaves theme = system; after mount the stored value equals the current
\* theme once effects have run
C29_StoredFollowsTheme ==
  /\ [][savedTheme' = "unread" => themeItem' = themeItem]_vars
  /\ []((ThemeSettled /\ themeEvents = 0) => theme = RestoredTheme(savedTheme))
  /\ [](ThemeSettled => themeItem = theme)

\* C29 amended: the same, the stored value equalling the current theme when
\* localStorage can be written
C29_StoredFollowsThemeWhenWritable ==
  /\ [][savedTheme' = "unread" => themeItem' = themeItem]_vars
  /\ []((ThemeSettled /\ themeEvents = 0) => theme = RestoredTheme(savedTheme))
  /\ []((ThemeSettled /\ storageOk) => themeItem = theme)

C29_Witness ==
  /\ ThemeSettled
  /\ storageOk
  /\ savedTheme = "dark"
  /\ themeEvents = 1
  /\ theme = "light"
  /\ themeItem = "light"

\* ------------------------------------------------ useIntersectionObserver
\* the observer callback for an entry, in an observer whose callback closes
\* over the hasTriggered of the render `closure`: the state updates it makes
CallbackUpdatesAlways(isElementIntersecting, closure) ==
  <<SetState("isIntersecting", isElementIntersecting)>>
CallbackUpdates(isElementIntersecting, closure) ==
  IF isElementIntersecting /\ ~closure
    THEN <<SetState("isIntersecting", TRUE)>>
           \o (IF triggerOnce THEN <<SetState("hasTriggered", TRUE)>> ELSE <<>>)
  ELSE IF ~triggerOnce
    THEN <<SetState("isIntersecting", isElementIntersecting)>>
  ELSE <<>>

\* the effect: the cleanup of the last run disconnects its observer, then a
\* new observer is created and observes the element
ObserverEffect ==
  /\ observerEffect
  /\ observerEffect' = FALSE
  /\ observer' = [connected |-> TRUE, hasTriggered |-> hasTriggered]
  /\ UNCHANGED <<config, monitor, storage, jsVars, tabs, webVitals, announcer, themeVars,
                 triggerOnce, isIntersecting, hasTriggered, observerUpdates, lastEntry,
                 entries>>

\* the browser reports an intersection change to the connected observer
ObserverCallback(isElementIntersecting) ==
  /\ observer.connected
  /\ observerUpdates' =
       observerUpdates \o CallbackUpdates(isElementIntersecting, observer.hasTriggered)
  /\ lastEntry' = isElementIntersecting
  /\ entries' = entries + 1
  /\ UNCHANGED <<config, monitor, storage, jsVars, tabs, webVitals, announcer, themeVars,
                 triggerOnce, isIntersecting, hasTriggered, observerEffect, observer>>

\* a render applies the queued updates; the effect runs again when
\* hasTriggered has changed
ObserverRender ==
  /\ ~observerEffect
  /\ observerUpdates # <<>>
  /\ isIntersecting' = StateAfter(isIntersecting, "isIntersecting", observerUpdates)
  /\ hasTriggered' = StateAfter(hasTriggered, "hasTriggered", observerUpdates)
  /\ observerUpdates' = <<>>
  /\ observerEffect' = (hasTriggered' # hasTriggered)
  /\ UNCHANGED <<config, monitor, storage, jsVars, tabs, webVitals, announcer, themeVars,
                 triggerOnce, observer, lastEntry, entries>>

MaxEntries == 5

InitObserver ==
  /\ InitHooks
  /\ InitThemeEnvironment
  /\ InitConfigurable
  /\ maxStoredMetrics = DEFAULT_maxStoredMetrics
  /\ enableLocalStorage = TRUE
  /\ storage = NoItem
  /\ triggerOnce \in BOOLEAN

NextObserver ==
  \/ ObserverEffect
  \/ (entries < MaxEntries /\ \E isElementIntersecting \in BOOLEAN :
        ObserverCallback(isElementIntersecting))
  \/ ObserverRender

SpecObserver == InitObserver /\ [][NextObserver]_vars

\* C30: with triggerOnce = true isIntersecting is a latch: once true it stays
\* true whatever the observer reports later; with triggerOnce = false
\* isIntersecting is, once rendered, the most recently reported value
C30_Latch ==
  /\ [][(triggerOnce /\ isIntersecting) => isIntersecting']_vars
  /\ []((~triggerOnce /\ entries > 0 /\ observerUpdates = <<>>)
          => isIntersecting = lastEntry)

C30_Witness ==
  /\ triggerOnce
  /\ isIntersecting
  /\ hasTriggered
  /\ observerUpdates = <<>>
  /\ entries >= 2
  /\ lastEntry = FALSE
====
